---- MODULE Spec2Model ----
(***************************************************************************)
(* Model of the "Run Code Block" VS Code extension (src/out/extension.js). *)
(*                                                                         *)
(* Texts (line texts, language identifiers, code) are sequences of         *)
(* one-character strings, so that the regular expressions, startsWith,     *)
(* toLowerCase and join of the source are computed and not assumed.        *)
(* Line numbers are 0-based as in the source; lineAt(doc, i) reads         *)
(* doc.lines[i + 1].                                                       *)
(***************************************************************************)
EXTENDS Integers, Sequences, FiniteSets, TLC

VARIABLES
    document,        \* the document of the active editor: [languageId, lines]
    config,          \* workspace configuration section 'runCodeBlock'
    lenses,          \* what provideCodeLenses last returned (NoLenses: not asked since the last refresh)
    cursorLine,      \* editor.selection.active.line
    terminals,       \* vscode.window.terminals (the open terminals)
    activeTerminal,  \* vscode.window.activeTerminal (0: undefined)
    sharedTerminal,  \* module variable sharedTerminal (0: undefined)
    closing,         \* terminals the host closed whose onDidCloseTerminal event is still to be delivered
    opened,          \* number of terminals opened so far (terminal n is the n-th one opened)
    created,         \* history: the terminals the extension opened with createTerminal
    sent,            \* history: terminal and text of the last sendText, a bit that flips at every
                     \* run, and whether every run so far was made with reuseTerminal on
    scan             \* the call of findCodeBlocks in progress: which loop it is in, the loop's
                     \* cursor i, and the locals blocks, sectionStart and sections

vars == <<document, config, lenses, cursorLine, terminals, activeTerminal,
          sharedTerminal, closing, opened, created, sent, scan>>

----------------------------------------------------------------------------
(* Bounds of the model *)

MaxMdLines == 6

MaxSrcLines == 7

\* Lines of the documents of the specification of the configuration.
MaxConfigLines == 3

\* Terminals opened in a behaviour of the specification of the terminals.
MaxTerminals == 2

----------------------------------------------------------------------------
(* Characters and strings *)

LowerLetters == <<"a","b","c","d","e","f","g","h","i","j","k","l","m",
                  "n","o","p","q","r","s","t","u","v","w","x","y","z">>

UpperLetters == <<"A","B","C","D","E","F","G","H","I","J","K","L","M",
                  "N","O","P","Q","R","S","T","U","V","W","X","Y","Z">>

Digits == {"0","1","2","3","4","5","6","7","8","9"}

Range(s) == {s[k] : k \in DOMAIN s}

\* \w of a JavaScript regular expression: [A-Za-z0-9_]
IsWordChar(c) == c \in Range(LowerLetters) \cup Range(UpperLetters) \cup Digits \cup {"_"}

\* \s as far as the texts of the model go
IsWhitespaceChar(c) == c \in {" ", "\t"}

LowerChar(c) ==
    IF \E n \in DOMAIN UpperLetters : UpperLetters[n] = c
    THEN LowerLetters[CHOOSE n \in DOMAIN UpperLetters : UpperLetters[n] = c]
    ELSE c

toLowerCase(s) == [k \in DOMAIN s |-> LowerChar(s[k])]

startsWith(s, prefix) ==
    /\ Len(s) >= Len(prefix)
    /\ SubSeq(s, 1, Len(prefix)) = prefix

RECURSIVE join(_, _)
join(parts, sep) ==
    IF Len(parts) = 0 THEN <<>>
    ELSE IF Len(parts) = 1 THEN parts[1]
    ELSE parts[1] \o sep \o join(Tail(parts), sep)

Newline == <<"\n">>

\* The backquote character (a TLA+ string cannot hold it).
Backtick == "BACKQUOTE"

Backticks == <<Backtick, Backtick, Backtick>>

\* The value of a JavaScript expression that is undefined, among texts.
Undefined == <<"undefined">>

----------------------------------------------------------------------------
(* Language identifiers (the keys c and r of RUNNERS are named clang and     *)
(* rlang here)                                                              *)

javascript  == <<"j","a","v","a","s","c","r","i","p","t">>
typescript  == <<"t","y","p","e","s","c","r","i","p","t">>
python      == <<"p","y","t","h","o","n">>
shellscript == <<"s","h","e","l","l","s","c","r","i","p","t">>
ruby        == <<"r","u","b","y">>
go          == <<"g","o">>
rust        == <<"r","u","s","t">>
java        == <<"j","a","v","a">>
clang       == <<"c">>
cpp         == <<"c","p","p">>
php         == <<"p","h","p">>
perl        == <<"p","e","r","l">>
lua         == <<"l","u","a">>
rlang       == <<"r">>
markdown    == <<"m","a","r","k","d","o","w","n">>
\* a language the extension has no built-in runner for
deno        == <<"d","e","n","o">>

RUNNERS ==
    (javascript  :> [command |-> "node \"{file}\"", ext |-> ".js"]) @@
    (typescript  :> [command |-> "npx ts-node \"{file}\"", ext |-> ".ts"]) @@
    (python      :> [command |-> "python3 \"{file}\"", ext |-> ".py"]) @@
    (shellscript :> [command |-> "bash \"{file}\"", ext |-> ".sh"]) @@
    (ruby        :> [command |-> "ruby \"{file}\"", ext |-> ".rb"]) @@
    (go          :> [command |-> "go run \"{file}\"", ext |-> ".go"]) @@
    (rust        :> [command |-> "rustc \"{file}\" -o \"{file}.out\" && \"{file}.out\"", ext |-> ".rs"]) @@
    (java        :> [command |-> "java \"{file}\"", ext |-> ".java"]) @@
    (clang       :> [command |-> "gcc \"{file}\" -o \"{file}.out\" && \"{file}.out\"", ext |-> ".c"]) @@
    (cpp         :> [command |-> "g++ \"{file}\" -o \"{file}.out\" && \"{file}.out\"", ext |-> ".cpp"]) @@
    (php         :> [command |-> "php \"{file}\"", ext |-> ".php"]) @@
    (perl        :> [command |-> "perl \"{file}\"", ext |-> ".pl"]) @@
    (lua         :> [command |-> "lua \"{file}\"", ext |-> ".lua"]) @@
    (rlang       :> [command |-> "Rscript \"{file}\"", ext |-> ".R"])

\* Property names an object literal inherits from Object.prototype and that
\* survive toLowerCase: obj[name] is not undefined for them.
ObjectPrototypeKeys == { <<"c","o","n","s","t","r","u","c","t","o","r">>,
                         <<"_","_","p","r","o","t","o","_","_">> }

\* The value obj[name] of an inherited property: not a string, and as a
\* property key it names nothing.
Inherited(name) == <<"[inherited]">> \o name

\* The test `RUNNERS[languageId]` of findMarkdownBlocks and findSourceBlocks.
HasRunner(languageId) ==
    \/ languageId \in DOMAIN RUNNERS
    \/ languageId \in ObjectPrototypeKeys

aliases ==
    (<<"j","s">>         :> javascript) @@
    (<<"t","s">>         :> typescript) @@
    (<<"p","y">>         :> python) @@
    (<<"s","h">>         :> shellscript) @@
    (<<"b","a","s","h">> :> shellscript) @@
    (<<"z","s","h">>     :> shellscript) @@
    (<<"r","b">>         :> ruby) @@
    (<<"r","s">>         :> rust) @@
    (<<"c","+","+">>     :> cpp) @@
    (<<"c","x","x">>     :> cpp)

\* aliases[lang] ?? lang
normalizeLangId(lang) ==
    IF lang \in DOMAIN aliases THEN aliases[lang]
    ELSE IF lang \in ObjectPrototypeKeys THEN Inherited(lang)
    ELSE lang

\* /^```\w+/.test(lineText)
OpensFence(lineText) ==
    /\ startsWith(lineText, Backticks)
    /\ Len(lineText) >= 4
    /\ IsWordChar(lineText[4])

\* The end of the greedy \w+ that starts at position from.
RECURSIVE WordRunEnd(_, _)
WordRunEnd(text, from) ==
    IF from + 1 <= Len(text) /\ IsWordChar(text[from + 1])
    THEN WordRunEnd(text, from + 1)
    ELSE from

\* line.match(/^```(\w+)/): match[1].toLowerCase(), or undefined
detectMarkdownLang(line) ==
    IF OpensFence(line)
    THEN toLowerCase(SubSeq(line, 4, WordRunEnd(line, 4)))
    ELSE Undefined

\* a ?? b
Coalesce(a, b) == IF a = Undefined THEN b ELSE a

----------------------------------------------------------------------------
(* The host document *)

lineCount(doc) == Len(doc.lines)

\* TextLine.isEmptyOrWhitespace of the host
IsEmptyOrWhitespace(text) == \A k \in DOMAIN text : IsWhitespaceChar(text[k])

lineAt(doc, i) ==
    [text |-> doc.lines[i + 1],
     isEmptyOrWhitespace |-> IsEmptyOrWhitespace(doc.lines[i + 1])]

\* for (let l = from; l <= to; l++) lines.push(document.lineAt(l).text)
TextOfLines(doc, from, to) == [k \in 1..(to - from + 1) |-> lineAt(doc, from + k - 1).text]

----------------------------------------------------------------------------
(* findMarkdownBlocks *)

\* while (i < document.lineCount && !lineAt(i).text.startsWith('```')) i++
RECURSIVE ScanClose(_, _)
ScanClose(doc, i) ==
    IF i < lineCount(doc) /\ ~startsWith(lineAt(doc, i).text, Backticks)
    THEN ScanClose(doc, i + 1)
    ELSE i

\* MdStep without the test endLine >= startLine.
MdStepKeepsEmptyFence(doc, st) ==
    LET i == st.i
        lineText == lineAt(doc, i).text
    IN  IF OpensFence(lineText)
        THEN LET languageId == normalizeLangId(Coalesce(detectMarkdownLang(lineText), shellscript))
                 close == ScanClose(doc, i + 1)
             IN  [i |-> close + 1,
                  blocks |->
                      IF HasRunner(languageId)
                      THEN Append(st.blocks,
                                  [startLine |-> i + 1,
                                   endLine |-> close - 1,
                                   languageId |-> languageId,
                                   code |-> join(TextOfLines(doc, i + 1, close - 1), Newline),
                                   lensLine |-> i])
                      ELSE st.blocks]
        ELSE [i |-> i + 1, blocks |-> st.blocks]

\* MdStep giving up the scan at a fence of an unsupported language.
MdStepStopsAtUnsupported(doc, st) ==
    LET i == st.i
        lineText == lineAt(doc, i).text
    IN  IF OpensFence(lineText)
        THEN LET languageId == normalizeLangId(Coalesce(detectMarkdownLang(lineText), shellscript))
                 close == ScanClose(doc, i + 1)
             IN  IF ~HasRunner(languageId)
                 THEN [i |-> lineCount(doc), blocks |-> st.blocks]
                 ELSE [i |-> close + 1,
                       blocks |->
                           IF close - 1 >= i + 1
                           THEN Append(st.blocks,
                                       [startLine |-> i + 1,
                                        endLine |-> close - 1,
                                        languageId |-> languageId,
                                        code |-> join(TextOfLines(doc, i + 1, close - 1), Newline),
                                        lensLine |-> i])
                           ELSE st.blocks]
        ELSE [i |-> i + 1, blocks |-> st.blocks]

\* MdStep leaving the cursor on the closing fence, which the next iteration
\* then examines as an opening line.
MdStepReopensAtClose(doc, st) ==
    LET i == st.i
        lineText == lineAt(doc, i).text
    IN  IF OpensFence(lineText)
        THEN LET languageId == normalizeLangId(Coalesce(detectMarkdownLang(lineText), shellscript))
                 close == ScanClose(doc, i + 1)
             IN  [i |-> close,
                  blocks |->
                      IF close - 1 >= i + 1 /\ HasRunner(languageId)
                      THEN Append(st.blocks,
                                  [startLine |-> i + 1,
                                   endLine |-> close - 1,
                                   languageId |-> languageId,
                                   code |-> join(TextOfLines(doc, i + 1, close - 1), Newline),
                                   lensLine |-> i])
                      ELSE st.blocks]
        ELSE [i |-> i + 1, blocks |-> st.blocks]

\* One iteration of the outer while loop, from st = [i, blocks].
MdStep(doc, st) ==
    LET i == st.i
        lineText == lineAt(doc, i).text
    IN  IF OpensFence(lineText)
        THEN LET rawLang == Coalesce(detectMarkdownLang(lineText), shellscript)
                 languageId == normalizeLangId(rawLang)
                 lensLine == i
                 startLine == i + 1
                 close == ScanClose(doc, i + 1)
                 endLine == close - 1
             IN  [i |-> close + 1,
                  blocks |->
                      IF endLine >= startLine /\ HasRunner(languageId)
                      THEN Append(st.blocks,
                                  [startLine |-> startLine,
                                   endLine |-> endLine,
                                   languageId |-> languageId,
                                   code |-> join(TextOfLines(doc, startLine, endLine), Newline),
                                   lensLine |-> lensLine])
                      ELSE st.blocks]
        ELSE [i |-> i + 1, blocks |-> st.blocks]

RECURSIVE MdLoop(_, _)
MdLoop(doc, st) ==
    IF st.i < lineCount(doc) THEN MdLoop(doc, MdStep(doc, st)) ELSE st

findMarkdownBlocks(doc) == MdLoop(doc, [i |-> 0, blocks |-> <<>>]).blocks

----------------------------------------------------------------------------
(* findSourceBlocks *)

\* sectionStart === null
Null == -1

\* let j = i; while (j < document.lineCount && lineAt(j).isEmptyOrWhitespace) j++
RECURSIVE BlankRunEnd(_, _)
BlankRunEnd(doc, j) ==
    IF j < lineCount(doc) /\ lineAt(doc, j).isEmptyOrWhitespace
    THEN BlankRunEnd(doc, j + 1)
    ELSE j

\* SrcStep closing the section at a single blank line.
SrcStepSplitsAtOneBlank(doc, st) ==
    LET i == st.i
        isEmpty == lineAt(doc, i).isEmptyOrWhitespace
    IN  IF ~isEmpty
        THEN [i |-> i + 1,
              sectionStart |-> IF st.sectionStart = Null THEN i ELSE st.sectionStart,
              sections |-> st.sections]
        ELSE IF st.sectionStart # Null
        THEN [i |-> BlankRunEnd(doc, i),
              sectionStart |-> Null,
              sections |-> Append(st.sections, [start |-> st.sectionStart, end |-> i - 1])]
        ELSE [i |-> i + 1, sectionStart |-> st.sectionStart, sections |-> st.sections]

\* SrcStep whose jump past a blank run lands where it started, so that the
\* i++ of the loop header brings the cursor back to the first blank line.
SrcStepJumpsBack(doc, st) ==
    LET i == st.i
        isEmpty == lineAt(doc, i).isEmptyOrWhitespace
    IN  IF ~isEmpty
        THEN [i |-> i + 1,
              sectionStart |-> IF st.sectionStart = Null THEN i ELSE st.sectionStart,
              sections |-> st.sections]
        ELSE IF st.sectionStart # Null
        THEN LET j == BlankRunEnd(doc, i)
                 blankCount == j - i
             IN  IF blankCount >= 2
                 THEN [i |-> (i - 1) + 1,
                       sectionStart |-> Null,
                       sections |-> Append(st.sections,
                                           [start |-> st.sectionStart, end |-> i - 1])]
                 ELSE [i |-> i + 1,
                       sectionStart |-> st.sectionStart,
                       sections |-> st.sections]
        ELSE [i |-> i + 1, sectionStart |-> st.sectionStart, sections |-> st.sections]

\* One iteration of the for loop (its body, then i++), from
\* st = [i, sectionStart, sections].
SrcStep(doc, st) ==
    LET i == st.i
        isEmpty == lineAt(doc, i).isEmptyOrWhitespace
    IN  IF ~isEmpty
        THEN [i |-> i + 1,
              sectionStart |-> IF st.sectionStart = Null THEN i ELSE st.sectionStart,
              sections |-> st.sections]
        ELSE IF st.sectionStart # Null
        THEN LET j == BlankRunEnd(doc, i)
                 blankCount == j - i
             IN  IF blankCount >= 2
                 THEN [i |-> (j - 1) + 1,
                       sectionStart |-> Null,
                       sections |-> Append(st.sections,
                                           [start |-> st.sectionStart, end |-> i - 1])]
                 ELSE [i |-> i + 1,
                       sectionStart |-> st.sectionStart,
                       sections |-> st.sections]
        ELSE [i |-> i + 1, sectionStart |-> st.sectionStart, sections |-> st.sections]

RECURSIVE SrcLoop(_, _)
SrcLoop(doc, st) ==
    IF st.i < lineCount(doc) THEN SrcLoop(doc, SrcStep(doc, st)) ELSE st

\* The sections array after the loop and the `if (sectionStart !== null)` that follows it.
SectionsAfterLoop(doc, st) ==
    IF st.sectionStart # Null
    THEN Append(st.sections, [start |-> st.sectionStart, end |-> lineCount(doc) - 1])
    ELSE st.sections

\* The sections array of findSourceBlocks(doc).
findSections(doc) ==
    SectionsAfterLoop(doc, SrcLoop(doc, [i |-> 0, sectionStart |-> Null, sections |-> <<>>]))

\* The block pushed for one section.
SectionBlock(doc, sec) ==
    [startLine |-> sec.start,
     endLine |-> sec.end,
     languageId |-> doc.languageId,
     code |-> join(TextOfLines(doc, sec.start, sec.end), Newline),
     lensLine |-> sec.start]

\* The block pushed first: the whole file.
WholeFileBlock(doc) ==
    [startLine |-> 0,
     endLine |-> lineCount(doc) - 1,
     languageId |-> doc.languageId,
     code |-> join(TextOfLines(doc, 0, lineCount(doc) - 1), Newline),
     lensLine |-> 0]

\* findSourceBlocks giving the whole file only when there are no sections to give.
findSourceBlocksOneOrTheOther(doc) ==
    IF ~HasRunner(doc.languageId)
    THEN <<>>
    ELSE LET sections == findSections(doc)
         IN  IF Len(sections) > 1
             THEN [k \in DOMAIN sections |-> SectionBlock(doc, sections[k])]
             ELSE <<WholeFileBlock(doc)>>

\* What findSourceBlocks pushes once the sections are known: the whole file,
\* then one block per section when there is more than one section.
BlocksOfSections(doc, sections) ==
    <<WholeFileBlock(doc)>> \o
    (IF Len(sections) > 1
     THEN [k \in DOMAIN sections |-> SectionBlock(doc, sections[k])]
     ELSE <<>>)

findSourceBlocks(doc) ==
    IF ~HasRunner(doc.languageId)
    THEN <<>>
    ELSE BlocksOfSections(doc, findSections(doc))

findCodeBlocks(doc) ==
    IF doc.languageId = markdown
    THEN findMarkdownBlocks(doc)
    ELSE findSourceBlocks(doc)

----------------------------------------------------------------------------
(* RunBlockCodeLensProvider *)

\* The CodeLens made for one block: its range's line, its title and the
\* argument of its command 'runCodeBlock.run'.
CodeLens(doc, block) ==
    LET isWholeFile == /\ block.startLine = 0
                       /\ block.endLine = lineCount(doc) - 1
                       /\ doc.languageId # markdown
    IN  [line |-> block.lensLine,
         title |-> IF isWholeFile
                   THEN [text |-> "Run Entire File", from |-> 0, to |-> 0]
                   ELSE IF block.startLine = block.endLine
                   THEN [text |-> "Run Block (line)",
                         from |-> block.startLine + 1, to |-> block.startLine + 1]
                   ELSE [text |-> "Run Block (lines)",
                         from |-> block.startLine + 1, to |-> block.endLine + 1],
         block |-> block]

provideCodeLenses(doc, cfg) ==
    IF ~cfg.showCodeLens
    THEN <<>>
    ELSE LET blocks == findCodeBlocks(doc)
         IN  [k \in DOMAIN blocks |-> CodeLens(doc, blocks[k])]

----------------------------------------------------------------------------
(* The documents, configurations and terminals the model ranges over *)

\* Line texts of the Markdown documents: a content line, a bare fence, a
\* fence tagged with an alias in mixed case, a fence tagged c++ and a fence
\* tagged with a language that has no built-in runner.
ContentLine == <<"x">>
FenceBare == Backticks
FencePy == Backticks \o <<"P", "y">>
FenceCpp == Backticks \o <<"c", "+", "+">>
FenceDeno == Backticks \o deno

MdLineTexts == {ContentLine, FenceBare, FencePy, FenceCpp, FenceDeno}

\* Line texts of the source documents: a content line, an empty line and a
\* whitespace-only line.
EmptyLine == <<>>
SpaceLine == <<" ">>

SrcLineTexts == {ContentLine, EmptyLine, SpaceLine}

\* Languages of the source documents: one with a built-in runner, one without.
SrcLanguages == {python, deno}

\* The non-empty sequences over S of length at most n. A TextDocument has at
\* least one line.
SeqsUpTo(S, n) == UNION {[1..k -> S] : k \in 1..n}

MdDocuments == [languageId : {markdown}, lines : SeqsUpTo(MdLineTexts, MaxMdLines)]

SrcDocuments == [languageId : SrcLanguages, lines : SeqsUpTo(SrcLineTexts, MaxSrcLines)]

Documents == MdDocuments \cup SrcDocuments

\* The defaults of the configuration section.
DefaultConfig == [showCodeLens |-> TRUE, reuseTerminal |-> TRUE, customRunners |-> <<>>]

\* The state of the lenses before the host has asked for them, and after a refresh.
NoLenses == [current |-> FALSE, items |-> <<>>]

----------------------------------------------------------------------------
(* Detection over every document: the host asks the provider for the lenses *)

\* No call of findCodeBlocks in progress.
NoScan == [phase |-> "idle", i |-> 0, blocks |-> <<>>, sectionStart |-> Null, sections |-> <<>>]

\* The state after activate(context), with one of docs in the active editor.
InitOver(docs) ==
    /\ document \in docs
    /\ config = DefaultConfig
    /\ lenses = NoLenses
    /\ cursorLine = 0
    /\ terminals = {}
    /\ activeTerminal = 0
    /\ sharedTerminal = 0
    /\ closing = {}
    /\ opened = 0
    /\ created = {}
    /\ sent = [terminal |-> 0, text |-> <<>>, tick |-> FALSE, reused |-> TRUE]
    /\ scan = NoScan

Init == InitOver(Documents)

\* The host calls provideCodeLenses(document).
ProvideCodeLenses ==
    /\ lenses' = [current |-> TRUE, items |-> provideCodeLenses(document, config)]
    /\ UNCHANGED <<document, config, cursorLine, terminals, activeTerminal,
                   sharedTerminal, closing, opened, created, sent, scan>>

Next == ProvideCodeLenses

Spec == Init /\ [][Next]_vars

\* The blocks of the lenses on display.
Blocks == [k \in DOMAIN lenses.items |-> lenses.items[k].block]

----------------------------------------------------------------------------
(* Vocabulary of the properties *)

\* The lenses on display were computed for the document, with lenses enabled.
Detected == lenses.current /\ config.showCodeLens

IsMarkdown == document.languageId = markdown

LastLine == lineCount(document) - 1

Text(i) == document.lines[i + 1]

IsFenceLine(i) == startsWith(Text(i), Backticks)

IsBlankLine(i) == IsEmptyOrWhitespace(Text(i))

\* The language a fence line names: its tag lower-cased, then the alias table.
TagOf(i) == SubSeq(Text(i), 4, Len(Text(i)))

\* The first fence line after line a, or the line count if there is none.
ClosingOf(a) ==
    IF \E j \in (a + 1)..LastLine : IsFenceLine(j)
    THEN CHOOSE j \in (a + 1)..LastLine :
             IsFenceLine(j) /\ \A m \in (a + 1)..(j - 1) : ~IsFenceLine(m)
    ELSE LastLine + 1

\* Line 0 opens a fence that has content and is closed by a fence line.
FirstFenceClosedNonEmpty ==
    /\ IsFenceLine(0)
    /\ ClosingOf(0) >= 2
    /\ ClosingOf(0) <= LastLine

\* Text split at its newline characters (the inverse of joining lines that
\* hold no newline).
RECURSIVE SplitLines(_, _)
SplitLines(text, current) ==
    IF Len(text) = 0 THEN <<current>>
    ELSE IF Head(text) = "\n" THEN <<current>> \o SplitLines(Tail(text), <<>>)
    ELSE SplitLines(Tail(text), Append(current, Head(text)))

----------------------------------------------------------------------------
(* C1 *)

\* C1: in a Markdown document every emitted block is followed by a closing
\* fence line: a fence that is not closed before the end of the document
\* yields no block, so no block's content runs to the last line.
C1_UnterminatedFenceYieldsNoBlock ==
    (Detected /\ IsMarkdown) =>
        \A k \in DOMAIN Blocks :
            /\ Blocks[k].endLine + 1 <= LastLine
            /\ IsFenceLine(Blocks[k].endLine + 1)

----------------------------------------------------------------------------
(* C2 *)

\* C2: a first line of exactly three backticks, followed by at least one
\* content line and a closing fence, yields one block for that fence with
\* languageId "shellscript", startLine 1 and anchor line 0.
C2_BareFenceDefaultsToShellscript ==
    (Detected /\ IsMarkdown /\ Text(0) = Backticks /\ FirstFenceClosedNonEmpty) =>
        \E k \in DOMAIN Blocks :
            /\ Blocks[k].lensLine = 0
            /\ Blocks[k].startLine = 1
            /\ Blocks[k].endLine = ClosingOf(0) - 1
            /\ Blocks[k].languageId = shellscript

----------------------------------------------------------------------------
(* C3 *)

\* Line i starts a group: it is not blank, and either nothing but blank lines
\* comes before it or the two lines before it are blank.
StartsGroup(i) ==
    /\ ~IsBlankLine(i)
    /\ \/ \A p \in 0..(i - 1) : IsBlankLine(p)
       \/ i >= 2 /\ IsBlankLine(i - 1) /\ IsBlankLine(i - 2)

GroupStarts == {i \in 0..LastLine : StartsGroup(i)}

\* The elements of a finite set of numbers in increasing order.
RECURSIVE Ascending(_)
Ascending(S) ==
    IF S = {} THEN <<>>
    ELSE LET m == CHOOSE x \in S : \A y \in S : x <= y
         IN  <<m>> \o Ascending(S \ {m})

\* C3: in a source document of a supported language, with k the number of
\* groups of non-blank lines separated by runs of two or more blank lines,
\* the section blocks (the blocks after the whole-file block) are one per
\* group, in order, if k >= 2, and there is none if k is 0 or 1.
C3_SectionsIffTwoGroups ==
    (Detected /\ ~IsMarkdown /\ document.languageId \in DOMAIN RUNNERS) =>
        LET k == Cardinality(GroupStarts)
            sectionBlocks == Tail(Blocks)
        IN  /\ k >= 2 =>
                /\ Len(sectionBlocks) = k
                /\ [n \in DOMAIN sectionBlocks |-> sectionBlocks[n].startLine]
                       = Ascending(GroupStarts)
            /\ k <= 1 => Len(Blocks) = 1

\* A document of two groups, one of them with a single blank line inside,
\* got its two section blocks.
C3_Witness ==
    /\ Detected /\ ~IsMarkdown
    /\ Cardinality(GroupStarts) = 2
    /\ Len(Blocks) = 3
    /\ \E i \in 1..(LastLine - 1) :
           IsBlankLine(i) /\ ~IsBlankLine(i - 1) /\ ~IsBlankLine(i + 1)

----------------------------------------------------------------------------
(* C4 *)

\* C4: in a source document every section block starts and ends on a
\* non-blank line, also the last section of a document that ends with a
\* single blank line.
C4_SectionsHaveNoOuterBlankLines ==
    (Detected /\ ~IsMarkdown) =>
        \A k \in DOMAIN Blocks :
            k >= 2 => /\ ~IsBlankLine(Blocks[k].startLine)
                      /\ ~IsBlankLine(Blocks[k].endLine)

----------------------------------------------------------------------------
(* C5 *)

\* C5: in a source document whose language is a registry key the first block
\* is the whole file: startLine 0, endLine lineCount - 1, anchor line 0 and
\* as code all the lines joined with a newline; whatever the lines are.
C5_WholeFileBlockFirst ==
    (Detected /\ ~IsMarkdown /\ document.languageId \in DOMAIN RUNNERS) =>
        /\ Len(Blocks) >= 1
        /\ Blocks[1].startLine = 0
        /\ Blocks[1].endLine = LastLine
        /\ Blocks[1].lensLine = 0
        /\ Blocks[1].languageId = document.languageId
        /\ SplitLines(Blocks[1].code, <<>>) = document.lines

\* Blank documents got their whole-file block, and so did one with sections.
C5_Witness ==
    /\ Detected /\ ~IsMarkdown
    /\ \A i \in 0..LastLine : IsBlankLine(i)
    /\ LastLine >= 1
    /\ Len(Blocks) = 1
    /\ Len(Blocks[1].code) >= 2

----------------------------------------------------------------------------
(* C6 *)

\* C6: every block of either mode has
\* 0 <= anchorLine <= startLine <= endLine <= lineCount - 1.
C6_BlockBoundsOrdered ==
    Detected =>
        \A k \in DOMAIN Blocks :
            /\ 0 <= Blocks[k].lensLine
            /\ Blocks[k].lensLine <= Blocks[k].startLine
            /\ Blocks[k].startLine <= Blocks[k].endLine
            /\ Blocks[k].endLine <= LastLine

\* A Markdown block that ends on the last line of the document, after a
\* fence with no content.
C6_Witness ==
    /\ Detected /\ IsMarkdown
    /\ \E k \in DOMAIN Blocks : Blocks[k].endLine = LastLine
    /\ \E i \in 0..(LastLine - 1) : OpensFence(Text(i)) /\ IsFenceLine(i + 1)

----------------------------------------------------------------------------
(* C7 *)

\* C7: a closed, non-empty fence opened on line 0 by three backticks and an
\* alias, in any letter case, yields a block whose languageId is the alias's
\* canonical identifier; a tag that is no alias (and names a supported
\* language) yields a block whose languageId is the tag in lower case.
C7_AliasResolved ==
    (Detected /\ IsMarkdown /\ FirstFenceClosedNonEmpty) =>
        LET tag == toLowerCase(TagOf(0))
        IN  /\ tag \in DOMAIN aliases =>
                \E k \in DOMAIN Blocks :
                    Blocks[k].lensLine = 0 /\ Blocks[k].languageId = aliases[tag]
            /\ (tag \notin DOMAIN aliases /\ tag \in DOMAIN RUNNERS) =>
                \E k \in DOMAIN Blocks :
                    Blocks[k].lensLine = 0 /\ Blocks[k].languageId = tag

----------------------------------------------------------------------------
(* C10 *)

\* Line a opens a fence (as far as its text goes) of a language without runner.
IsUnsupportedFence(a) ==
    /\ OpensFence(Text(a))
    /\ ~HasRunner(normalizeLangId(detectMarkdownLang(Text(a))))

\* An ordinary fence line of a supported language.
SupportedFence == Backticks \o python

ReplaceLine(doc, a, text) == [doc EXCEPT !.lines[a + 1] = text]

WithoutAnchor(blocks, a) == SelectSeq(blocks, LAMBDA b : b.lensLine # a)

\* The blocks moved down by offset lines.
Shifted(blocks, offset) ==
    [k \in DOMAIN blocks |->
        [blocks[k] EXCEPT !.startLine = @ + offset,
                          !.endLine = @ + offset,
                          !.lensLine = @ + offset]]

\* The document made of the lines after line j.
LinesAfter(doc, j) == [doc EXCEPT !.lines = SubSeq(doc.lines, j + 2, Len(doc.lines))]

\* C10: a fence of an unsupported language yields no block, and the other
\* blocks are the ones the document yields with that fence's tag made a
\* supported one; a document that starts with such a fence yields the blocks
\* of the lines after the fence's closing line, so the scan resumes right
\* after the closing fence and later fences are emitted.
C10_UnsupportedFenceSkipped ==
    (Detected /\ IsMarkdown) =>
        /\ \A a \in 0..LastLine :
               IsUnsupportedFence(a) =>
                   /\ \A k \in DOMAIN Blocks : Blocks[k].lensLine # a
                   /\ Blocks = WithoutAnchor(
                                   findMarkdownBlocks(ReplaceLine(document, a, SupportedFence)), a)
        /\ IsUnsupportedFence(0) =>
               Blocks = Shifted(findMarkdownBlocks(LinesAfter(document, ClosingOf(0))),
                                ClosingOf(0) + 1)

\* A closed fence of an unsupported language with content, and after it a
\* closed fence of a supported language that got its block.
C10_Witness ==
    /\ Detected /\ IsMarkdown
    /\ IsUnsupportedFence(0)
    /\ FirstFenceClosedNonEmpty
    /\ \E k \in DOMAIN Blocks :
           /\ Blocks[k].lensLine > ClosingOf(0)
           /\ Blocks[k].endLine < LastLine

----------------------------------------------------------------------------
(* The configuration: onDidChangeConfiguration *)

\* The settings of the README's example, and a runner for a language that
\* has no built-in one.
CustomRunnerChoices ==
    { <<>>,
      (python :> "python3.11 \"{file}\""),
      (deno :> "deno run \"{file}\"") }

\* The user changes the section 'runCodeBlock' to cfg; the handler finds
\* e.affectsConfiguration('runCodeBlock') and calls codeLensProvider.refresh(),
\* which fires onDidChangeCodeLenses: the host drops the lenses it holds and
\* asks for them again (ProvideCodeLenses).
ChangeConfiguration(cfg) ==
    /\ cfg # config
    /\ config' = cfg
    /\ lenses' = NoLenses
    /\ UNCHANGED <<document, cursorLine, terminals, activeTerminal,
                   sharedTerminal, closing, opened, created, sent, scan>>

ConfigDocuments == {d \in Documents : Len(d.lines) <= MaxConfigLines}

ConfigChoices ==
    [showCodeLens : BOOLEAN, reuseTerminal : {TRUE}, customRunners : CustomRunnerChoices]

InitConfig == InitOver(ConfigDocuments)

NextConfig ==
    \/ ProvideCodeLenses
    \/ \E cfg \in ConfigChoices : ChangeConfiguration(cfg)

SpecConfig == InitConfig /\ [][NextConfig]_vars

----------------------------------------------------------------------------
(* C8 *)

\* C8: a language that the user's customRunners names is a supported
\* language for the detection that follows: a source document of that language
\* yields its blocks, and so does a closed, non-empty fence tagged with it.
C8_OverridesObserved ==
    /\ (Detected /\ ~IsMarkdown /\ document.languageId \in DOMAIN config.customRunners) =>
           Len(Blocks) >= 1
    /\ (Detected /\ IsMarkdown /\ FirstFenceClosedNonEmpty
            /\ toLowerCase(TagOf(0)) \in DOMAIN config.customRunners) =>
           \E k \in DOMAIN Blocks : Blocks[k].lensLine = 0

----------------------------------------------------------------------------
(* The terminal runner *)

\* getTerminal(): the terminal to use, and whether createTerminal made it.
\* A new terminal is the next one the host opens.
getTerminalTrustsHandle ==
    LET reuse == config.reuseTerminal
    IN  IF reuse /\ activeTerminal # 0
        THEN [terminal |-> activeTerminal, isNew |-> FALSE]
        ELSE IF reuse /\ sharedTerminal # 0
        THEN [terminal |-> sharedTerminal, isNew |-> FALSE]
        ELSE [terminal |-> opened + 1, isNew |-> TRUE]

getTerminal ==
    LET reuse == config.reuseTerminal
    IN  IF reuse /\ activeTerminal # 0
        THEN [terminal |-> activeTerminal, isNew |-> FALSE]
        ELSE IF reuse /\ sharedTerminal # 0 /\ sharedTerminal \in terminals
        THEN [terminal |-> sharedTerminal, isNew |-> FALSE]
        ELSE [terminal |-> opened + 1, isNew |-> TRUE]

\* runBlock(block): getTerminal(), terminal.show(true), which makes the
\* terminal the active one, and terminal.sendText(`{ ${block.code}\n}`).
runBlock(block) ==
    LET t == getTerminal
    IN  /\ t.isNew => opened < MaxTerminals
        /\ IF t.isNew
           THEN /\ terminals' = terminals \cup {t.terminal}
                /\ sharedTerminal' = t.terminal
                /\ opened' = opened + 1
                /\ created' = created \cup {t.terminal}
           ELSE UNCHANGED <<terminals, sharedTerminal, opened, created>>
        /\ activeTerminal' = t.terminal
        /\ sent' = [terminal |-> t.terminal,
                    text |-> <<"{", " ">> \o block.code \o <<"\n", "}">>,
                    tick |-> ~sent.tick,
                    reused |-> sent.reused /\ config.reuseTerminal]
        /\ UNCHANGED <<document, config, lenses, cursorLine, closing, scan>>

\* Command runCodeBlock.run, from the lens k on display.
RunLens(k) ==
    /\ k \in DOMAIN lenses.items
    /\ runBlock(lenses.items[k].block)

\* blocks.find((b) => cursorLine >= b.lensLine && cursorLine <= b.endLine)
ContainsCursor(b, line) == line >= b.lensLine /\ line <= b.endLine

\* FindAtCursor giving the last block that contains the line, not the first.
FindAtCursorLast(blocks, line) ==
    IF \E k \in DOMAIN blocks : ContainsCursor(blocks[k], line)
    THEN {blocks[CHOOSE k \in DOMAIN blocks :
                     /\ ContainsCursor(blocks[k], line)
                     /\ \A m \in (k + 1)..Len(blocks) : ~ContainsCursor(blocks[m], line)]}
    ELSE {}

FindAtCursor(blocks, line) ==
    IF \E k \in DOMAIN blocks : ContainsCursor(blocks[k], line)
    THEN {blocks[CHOOSE k \in DOMAIN blocks :
                     /\ ContainsCursor(blocks[k], line)
                     /\ \A m \in 1..(k - 1) : ~ContainsCursor(blocks[m], line)]}
    ELSE {}

\* Command runCodeBlock.runAtCursor. Without a block at the cursor (and
\* without an active editor) it shows a message and changes nothing.
RunAtCursor ==
    \E block \in FindAtCursor(findCodeBlocks(document), cursorLine) : runBlock(block)

\* The user moves the cursor to another line.
MoveCursor(line) ==
    /\ line \in 0..LastLine
    /\ line # cursorLine
    /\ cursorLine' = line
    /\ UNCHANGED <<document, config, lenses, terminals, activeTerminal,
                   sharedTerminal, closing, opened, created, sent, scan>>

\* The user opens a terminal, which becomes the active one.
UserOpensTerminal ==
    /\ opened < MaxTerminals
    /\ opened' = opened + 1
    /\ terminals' = terminals \cup {opened + 1}
    /\ activeTerminal' = opened + 1
    /\ UNCHANGED <<document, config, lenses, cursorLine, sharedTerminal,
                   closing, created, sent, scan>>

\* The user makes another open terminal the active one.
UserSelectsTerminal(t) ==
    /\ t \in terminals
    /\ t # activeTerminal
    /\ activeTerminal' = t
    /\ UNCHANGED <<document, config, lenses, cursorLine, terminals, sharedTerminal,
                   closing, opened, created, sent, scan>>

\* Terminal t is closed (by the user, or its process ends). The host takes it
\* off window.terminals at once and delivers onDidCloseTerminal later; if it
\* was the active one the host makes another terminal active, or none.
CloseTerminal(t) ==
    /\ t \in terminals
    /\ terminals' = terminals \ {t}
    /\ closing' = closing \cup {t}
    /\ IF activeTerminal = t
       THEN activeTerminal' \in (terminals \ {t}) \cup {0}
       ELSE UNCHANGED activeTerminal
    /\ UNCHANGED <<document, config, lenses, cursorLine, sharedTerminal,
                   opened, created, sent, scan>>

\* The handler of onDidCloseTerminal, for terminal t.
OnDidCloseTerminal(t) ==
    /\ t \in closing
    /\ closing' = closing \ {t}
    /\ sharedTerminal' = IF t = sharedTerminal THEN 0 ELSE sharedTerminal
    /\ UNCHANGED <<document, config, lenses, cursorLine, terminals, activeTerminal,
                   opened, created, sent, scan>>

\* A source document with two sections and a Markdown document with one
\* fence and a line after it.
TerminalDocuments ==
    { [languageId |-> python, lines |-> <<ContentLine, EmptyLine, EmptyLine, ContentLine>>],
      [languageId |-> markdown, lines |-> <<FencePy, ContentLine, FenceBare, ContentLine>>] }

ReuseChoices ==
    [showCodeLens : {TRUE}, reuseTerminal : BOOLEAN, customRunners : {<<>>}]

InitTerminal == InitOver(TerminalDocuments)

NextTerminal ==
    \/ ProvideCodeLenses
    \/ \E cfg \in ReuseChoices : ChangeConfiguration(cfg)
    \/ \E line \in 0..MaxSrcLines : MoveCursor(line)
    \/ \E k \in 1..MaxSrcLines : RunLens(k)
    \/ RunAtCursor
    \/ UserOpensTerminal
    \/ \E t \in 1..MaxTerminals : UserSelectsTerminal(t)
    \/ \E t \in 1..MaxTerminals : CloseTerminal(t)
    \/ \E t \in 1..MaxTerminals : OnDidCloseTerminal(t)

SpecTerminal == InitTerminal /\ [][NextTerminal]_vars

----------------------------------------------------------------------------
(* C9 *)

\* A step that runs a block.
RunStep == sent'.tick # sent.tick

\* The terminals the extension created that are open.
OwnOpen == created \cap terminals

\* A run with reuseTerminal on, all runs before it having been so too:
\* createTerminal is called exactly if there is no active terminal and no
\* open terminal of the extension, and otherwise a terminal that was open
\* before the run is used; the terminal used is open after the run.
ReuseOnRun ==
    (RunStep /\ sent'.reused) =>
        /\ (created' # created) <=> (activeTerminal = 0 /\ OwnOpen = {})
        /\ (created' = created) => sent'.terminal \in terminals
        /\ sent'.terminal \in terminals'

\* Only a run creates a terminal.
CreatedOnlyByRun == (created' # created) => RunStep

\* The handler of the closure of the shared terminal clears the handle.
ClosureClearsHandle ==
    (sharedTerminal \in closing /\ sharedTerminal \notin closing') => sharedTerminal' = 0

\* C9: with reuse enabled, no terminal is created before the first run; a run
\* creates a terminal only if no terminal of the extension is open and none
\* is active, and reuses an open one otherwise; the stored handle names an
\* open terminal or one whose closure is still to be reported, the report
\* clears it, and no run uses a closed terminal.
C9_TerminalLifecycle ==
    /\ [](created # {} => sent.terminal # 0)
    /\ []((sharedTerminal # 0 /\ sharedTerminal \notin terminals) => sharedTerminal \in closing)
    /\ [][ReuseOnRun /\ CreatedOnlyByRun /\ ClosureClearsHandle]_vars

\* The extension's first terminal was closed and, before that was reported,
\* a run created the second one, which is now the shared terminal.
C9_Witness ==
    /\ created = {1, 2}
    /\ sent.reused
    /\ sent.terminal = 2
    /\ sharedTerminal = 2
    /\ 1 \in closing

----------------------------------------------------------------------------
(* C11 *)

\* C11: the first fence line after an opening fence closes it, whether or
\* not that line looks like an opening fence itself: every block ends right
\* before the first fence line after its anchor, no block is anchored on the
\* closing line of a block, and when line 0 opens a fence the blocks not
\* anchored there are the blocks of the lines after that fence's closing line.
C11_FirstFenceLineCloses ==
    (Detected /\ IsMarkdown) =>
        /\ \A k \in DOMAIN Blocks :
               /\ Blocks[k].endLine + 1 = ClosingOf(Blocks[k].lensLine)
               /\ \A m \in DOMAIN Blocks : Blocks[m].lensLine # Blocks[k].endLine + 1
        /\ OpensFence(Text(0)) =>
               WithoutAnchor(Blocks, 0) =
                   Shifted(findMarkdownBlocks(LinesAfter(document, ClosingOf(0))),
                           ClosingOf(0) + 1)

\* A fence closed by a line that matches the opening pattern with a supported
\* tag, followed by content and a fence line: the one block is the first
\* fence's, and the lines after the closing line gave none.
C11_Witness ==
    /\ Detected /\ IsMarkdown
    /\ OpensFence(Text(0))
    /\ ClosingOf(0) = 2
    /\ LastLine = 4
    /\ OpensFence(Text(2))
    /\ HasRunner(normalizeLangId(detectMarkdownLang(Text(2))))
    /\ ~IsFenceLine(3)
    /\ IsFenceLine(4)
    /\ Len(Blocks) = 1
    /\ Blocks[1].lensLine = 0

----------------------------------------------------------------------------
(* One call of findCodeBlocks, one loop iteration at a time *)

MaxScanLines == 5

\* Line texts of the Markdown documents scanned: a line that is no fence, a
\* fence line that cannot open a block and one that can.
ScanMdLineTexts == {ContentLine, FenceBare, FencePy}

ScanDocuments ==
    [languageId : {markdown}, lines : SeqsUpTo(ScanMdLineTexts, MaxScanLines)] \cup
    [languageId : SrcLanguages, lines : SeqsUpTo(SrcLineTexts, MaxScanLines)]

\* No editor is open: vscode.window.activeTextEditor is undefined.
NoDocument == [languageId |-> Undefined, lines |-> <<>>]

\* The state after activate(context), before a document is opened.
InitScan == InitOver({NoDocument})

\* The user opens a document in the editor.
OpenDocument ==
    /\ document = NoDocument
    /\ document' \in ScanDocuments
    /\ UNCHANGED <<config, lenses, cursorLine, terminals, activeTerminal,
                   sharedTerminal, closing, opened, created, sent, scan>>

\* findCodeBlocks(document) is called: it enters findMarkdownBlocks or
\* findSourceBlocks, which returns [] at once for a language without a runner.
ScanStart ==
    /\ document # NoDocument
    /\ scan.phase = "idle"
    /\ scan' = IF document.languageId = markdown
               THEN [NoScan EXCEPT !.phase = "markdown"]
               ELSE IF ~HasRunner(document.languageId)
               THEN [NoScan EXCEPT !.phase = "done"]
               ELSE [NoScan EXCEPT !.phase = "source"]
    /\ UNCHANGED <<document, config, lenses, cursorLine, terminals, activeTerminal,
                   sharedTerminal, closing, opened, created, sent>>

\* while (i < document.lineCount) { ... }: one iteration.
MdIterate ==
    /\ scan.phase = "markdown"
    /\ scan.i < lineCount(document)
    /\ LET st == MdStep(document, [i |-> scan.i, blocks |-> scan.blocks])
       IN  scan' = [scan EXCEPT !.i = st.i, !.blocks = st.blocks]
    /\ UNCHANGED <<document, config, lenses, cursorLine, terminals, activeTerminal,
                   sharedTerminal, closing, opened, created, sent>>

\* The while condition fails: return blocks.
MdReturn ==
    /\ scan.phase = "markdown"
    /\ ~(scan.i < lineCount(document))
    /\ scan' = [scan EXCEPT !.phase = "done"]
    /\ UNCHANGED <<document, config, lenses, cursorLine, terminals, activeTerminal,
                   sharedTerminal, closing, opened, created, sent>>

\* for (let i = 0; i < document.lineCount; i++) { ... }: one iteration.
SrcIterate ==
    /\ scan.phase = "source"
    /\ scan.i < lineCount(document)
    /\ LET st == SrcStep(document, [i |-> scan.i,
                                    sectionStart |-> scan.sectionStart,
                                    sections |-> scan.sections])
       IN  scan' = [scan EXCEPT !.i = st.i,
                                !.sectionStart = st.sectionStart,
                                !.sections = st.sections]
    /\ UNCHANGED <<document, config, lenses, cursorLine, terminals, activeTerminal,
                   sharedTerminal, closing, opened, created, sent>>

\* The for condition fails: the open section is closed, the blocks are
\* pushed and returned.
SrcReturn ==
    /\ scan.phase = "source"
    /\ ~(scan.i < lineCount(document))
    /\ LET sections == SectionsAfterLoop(document, [i |-> scan.i,
                                                    sectionStart |-> scan.sectionStart,
                                                    sections |-> scan.sections])
       IN  scan' = [scan EXCEPT !.phase = "done",
                                !.sections = sections,
                                !.blocks = BlocksOfSections(document, sections)]
    /\ UNCHANGED <<document, config, lenses, cursorLine, terminals, activeTerminal,
                   sharedTerminal, closing, opened, created, sent>>

\* The steps of a call that has been entered.
ScanRuns ==
    \/ MdIterate
    \/ MdReturn
    \/ SrcIterate
    \/ SrcReturn

NextScan ==
    \/ OpenDocument
    \/ ScanStart
    \/ ScanRuns

\* The call is synchronous code on the extension host's single thread:
\* once entered it runs until it returns, so a step of the call that can be
\* taken is taken.  Nothing obliges the user to open a document or the host
\* to make the call.
SpecScan == InitScan /\ [][NextScan]_vars /\ WF_vars(ScanRuns)

----------------------------------------------------------------------------
(* C12 *)

\* A step that stays within one of the two scanning loops.
Iteration ==
    /\ scan.phase \in {"markdown", "source"}
    /\ scan'.phase = scan.phase

\* C12: detection terminates in both modes: every iteration of the fence
\* scan and of the section scan (its jump past a blank run included) moves
\* the cursor strictly forward, the cursor never passes the end of the
\* document by more than the closing fence's increment, and a call that has
\* entered a loop ends by returning the blocks of the document.
C12_DetectionTerminates ==
    /\ [][Iteration => scan'.i > scan.i]_vars
    /\ [](scan.phase = "markdown" => scan.i <= lineCount(document) + 1)
    /\ [](scan.phase = "source" => scan.i <= lineCount(document))
    /\ [](scan.phase = "done" => scan.blocks = findCodeBlocks(document))
    /\ (scan.phase \in {"markdown", "source"}) ~> (scan.phase = "done")

\* The scan of a plain document has returned after jumping past a run of
\* two or more blank lines between two sections.
C12_Witness ==
    /\ scan.phase = "done"
    /\ ~IsMarkdown
    /\ Len(scan.sections) = 2
    /\ scan.sections[2].start > scan.sections[1].end + 2
    /\ Len(scan.blocks) = 3

----------------------------------------------------------------------------
(* Run at cursor in a plain document *)

MaxCursorLines == 5

CursorDocuments == [languageId : SrcLanguages, lines : SeqsUpTo(SrcLineTexts, MaxCursorLines)]

InitCursor == InitOver(CursorDocuments)

NextCursor ==
    \/ \E line \in 0..MaxCursorLines : MoveCursor(line)
    \/ RunAtCursor

SpecCursor == InitCursor /\ [][NextCursor]_vars

----------------------------------------------------------------------------
(* C13 *)

\* The code between the braces of the text last sent to a terminal.
SentCode == SubSeq(sent.text, 3, Len(sent.text) - 2)

\* Block b is the whole file: anchored on line 0, from the first line to the
\* last, its code the lines of the document.
IsWholeFile(b) ==
    /\ b.lensLine = 0
    /\ b.startLine = 0
    /\ b.endLine = LastLine
    /\ SplitLines(b.code, <<>>) = document.lines

\* C13: in a plain document of a supported language the block found at the
\* cursor is, for every line of the document, the whole-file block, and what
\* run-at-cursor has sent to the terminal is the entire file, also when
\* section blocks were emitted and the cursor is inside a section.
C13_CursorRunsWholeFile ==
    (~IsMarkdown /\ HasRunner(document.languageId)) =>
        /\ \A line \in 0..LastLine :
               /\ FindAtCursor(findCodeBlocks(document), line) # {}
               /\ \A b \in FindAtCursor(findCodeBlocks(document), line) : IsWholeFile(b)
        /\ sent.terminal # 0 => SplitLines(SentCode, <<>>) = document.lines

\* Section blocks were emitted, the cursor is inside the second section, and
\* run-at-cursor has run: the whole file was sent.
C13_Witness ==
    /\ ~IsMarkdown
    /\ Len(findCodeBlocks(document)) = 3
    /\ ContainsCursor(findCodeBlocks(document)[3], cursorLine)
    /\ cursorLine > 0
    /\ sent.terminal # 0
    /\ sent.tick
    /\ SentCode = join(document.lines, Newline)
    /\ SentCode # findCodeBlocks(document)[3].code

====
